---- MODULE Spec2Model ----
(***************************************************************************)
(* Model of the reverse-proxy load balancer: the backend registry and its  *)
(* health monitor (upstream.rs), the fixed-window rate limiter             *)
(* (rate_limiter.rs), the round-robin selector / forwarder                 *)
(* (proxy_handler.rs) and the orchestrator (load_balancer.rs).             *)
(***************************************************************************)
EXTENDS Integers, Sequences, FiniteSets, TLC

\* ------------------------------------------------------------ bounds
MaxServers == 2     \* targets add_server may register (Spec)
MaxPool == 3        \* targets registered at startup (SpecRR)
MaxTime == 2        \* the clock stops here
MaxWindow == 1      \* largest window_secs a configuration takes
MaxLimit == 2       \* largest max_requests a configuration takes
MaxRun == 6         \* selections counted from the start of the process

\* ------------------------------------------------------------ program constants
OK == 200
TOO_MANY_REQUESTS == 429
SERVICE_UNAVAILABLE == 503
PROBE_PERIOD == 20  \* seconds between two ticks of the monitor's interval

\* ------------------------------------------------------------ inputs
Tasks == {"t1", "t2"}                  \* request tasks in flight at once
NoHeader == "none"
Headers == {NoHeader, "A", "B"}         \* value of x-forwarded-for
Keys == {"unknown", "A", "B"}
Urls == {"ok", "bad"}                   \* "bad": a string that is no URI
NoEntry == <<>>
XFF == "x-forwarded-for"
NotAscii == "bytes 0xC3 0xA9"           \* a header value to_str() rejects
NoPath == ""                            \* uri().path_and_query() is None
\* header maps of incoming requests, in the order the lines arrived
HeaderMaps ==
    { <<>>, << <<XFF, "A">> >>, << <<XFF, "B">> >>,
      << <<XFF, "A">>, <<XFF, "B">> >>, << <<XFF, "B">>, <<XFF, "A">> >>,
      << <<XFF, NotAscii>> >>, << <<XFF, NotAscii>>, <<XFF, "A">> >>,
      << <<XFF, "unknown">> >>, << <<"content-type", "json">> >>,
      << <<"content-type", "json">>, <<XFF, "B">> >> }
\* incoming requests whose method, path, headers and body all vary
Requests ==
    [ method : {"GET", "POST"}, path : {NoPath, "/a?b=1"},
      headers : { <<>>, << <<XFF, "A">> >>, << <<"content-type", "json">> >> },
      body : {"", "data"} ]
NoAdd == "none"
ProbeOutcomes ==
    { [ok |-> TRUE, status |-> 200], [ok |-> TRUE, status |-> 500],
      [ok |-> FALSE, status |-> 0] }
UpstreamReplies ==
    { [ok |-> TRUE, status |-> 200, body |-> "OK"],
      [ok |-> TRUE, status |-> 500, body |-> "ERR"],
      [ok |-> FALSE, status |-> 0, body |-> ""] }

VARIABLES
    servers,            \* LoadBalancer.servers: Vec<UpstreamServer>
    add_pending,        \* an add_server call waiting for servers.write()
    NEXT_SERVER_INDEX,  \* the global round-robin index
    requests,           \* RateLimiter.requests: key -> (count, window_start)
    window,             \* RateLimiter.window
    max_requests,       \* RateLimiter.max_requests
    now,                \* Instant::now()
    task,               \* the request tasks running proxy_request
    mon,                \* the task running health_check_loop
    last,               \* history: the last selection that returned a target,
                        \* and the targets of the latest ones over its set
    rr_count,           \* history: selections since the start, all over one set
    hist                \* history: per key, the calls in its first window and
                        \* the calls admitted in the last window seconds

vars == << servers, add_pending, NEXT_SERVER_INDEX, requests, window,
           max_requests, now, task, mon, last, rr_count, hist >>

\* ------------------------------------------------------------ helpers
Min(a, b) == IF a < b THEN a ELSE b

Max(a, b) == IF a < b THEN b ELSE a

Range(s) == { s[i] : i \in DOMAIN s }

\* Uri::try_from / Request::builder().uri(): does the string parse as a URI
ParsesAsUri(url) == url # "bad"

NoRequest == [ method |-> "", path |-> NoPath, headers |-> <<>>, body |-> "" ]

NoOutbound == [ method |-> "", uri |-> <<>>, headers |-> <<>>, body |-> "" ]

IdleTask ==
    [ pc |-> "idle", req |-> NoRequest, outbound |-> NoOutbound,
      ip |-> "", allowed |-> FALSE, pos |-> 0,
      healthy_servers |-> <<>>, selected |-> 0, response |-> [status |-> 0, body |-> ""],
      outcome |-> "none", all_down |-> FALSE, down_instant |-> FALSE, n_select |-> 0, n_forward |-> 0,
      sent_to |-> 0 ]

NoLast == [ cands |-> <<>>, idx |-> 0, pre |-> 0, target |-> 0, recent |-> <<>> ]

NoHist == [ start |-> -1, calls |-> 0, admits |-> [u \in 0..MaxTime |-> 0] ]

\* ------------------------------------------------------------ rate limiter
\* the count test written with <=
check_le(reqs, ip, t) ==
    LET ins == IF reqs[ip] = NoEntry THEN [reqs EXCEPT ![ip] = <<0, t>>] ELSE reqs
        entry == ins[ip]
    IN  IF t - entry[2] > window
        THEN [ requests |-> [ins EXCEPT ![ip] = <<1, t>>], ok |-> TRUE ]
        ELSE IF entry[1] <= max_requests
             THEN [ requests |-> [ins EXCEPT ![ip] = <<entry[1] + 1, entry[2]>>],
                    ok |-> TRUE ]
             ELSE [ requests |-> ins, ok |-> FALSE ]

\* the window test written with >=
check_ge(reqs, ip, t) ==
    LET ins == IF reqs[ip] = NoEntry THEN [reqs EXCEPT ![ip] = <<0, t>>] ELSE reqs
        entry == ins[ip]
    IN  IF t - entry[2] >= window
        THEN [ requests |-> [ins EXCEPT ![ip] = <<1, t>>], ok |-> TRUE ]
        ELSE IF entry[1] < max_requests
             THEN [ requests |-> [ins EXCEPT ![ip] = <<entry[1] + 1, entry[2]>>],
                    ok |-> TRUE ]
             ELSE [ requests |-> ins, ok |-> FALSE ]

\* a new window drops the whole map instead of one entry
check_clear(reqs, ip, t) ==
    LET ins == IF reqs[ip] = NoEntry THEN [reqs EXCEPT ![ip] = <<0, t>>] ELSE reqs
        entry == ins[ip]
    IN  IF t - entry[2] > window
        THEN [ requests |-> [k \in DOMAIN reqs |->
                                IF k = ip THEN <<1, t>> ELSE NoEntry],
               ok |-> TRUE ]
        ELSE IF entry[1] < max_requests
             THEN [ requests |-> [ins EXCEPT ![ip] = <<entry[1] + 1, entry[2]>>],
                    ok |-> TRUE ]
             ELSE [ requests |-> ins, ok |-> FALSE ]

\* a denial restarts the window
check_touch(reqs, ip, t) ==
    LET ins == IF reqs[ip] = NoEntry THEN [reqs EXCEPT ![ip] = <<0, t>>] ELSE reqs
        entry == ins[ip]
    IN  IF t - entry[2] > window
        THEN [ requests |-> [ins EXCEPT ![ip] = <<1, t>>], ok |-> TRUE ]
        ELSE IF entry[1] < max_requests
             THEN [ requests |-> [ins EXCEPT ![ip] = <<entry[1] + 1, entry[2]>>],
                    ok |-> TRUE ]
             ELSE [ requests |-> [ins EXCEPT ![ip] = <<entry[1], t>>], ok |-> FALSE ]

\* RateLimiter::check on the whole map: or_insert((0, now)), then the
\* window test, then the count test.
check(reqs, ip, t) ==
    LET ins == IF reqs[ip] = NoEntry THEN [reqs EXCEPT ![ip] = <<0, t>>] ELSE reqs
        entry == ins[ip]
    IN  IF t - entry[2] > window
        THEN [ requests |-> [ins EXCEPT ![ip] = <<1, t>>], ok |-> TRUE ]
        ELSE IF entry[1] < max_requests
             THEN [ requests |-> [ins EXCEPT ![ip] = <<entry[1] + 1, entry[2]>>],
                    ok |-> TRUE ]
             ELSE [ requests |-> ins, ok |-> FALSE ]

HeaderGet_last(headers, name) ==
    LET at == { i \in DOMAIN headers : headers[i][1] = name }
    IN  IF at = {} THEN NoHeader
        ELSE headers[CHOOSE i \in at : \A j \in at : i >= j][2]

\* HeaderMap::get: the first value stored under the name, if any
HeaderGet(headers, name) ==
    LET at == { i \in DOMAIN headers : headers[i][1] = name }
    IN  IF at = {} THEN NoHeader
        ELSE headers[CHOOSE i \in at : \A j \in at : i <= j][2]

\* HeaderValue::to_str: Ok only for visible ASCII
VisibleAscii(v) == v # NotAscii

\* .and_then(|v| v.to_str().ok()).unwrap_or_else(|| "unknown"): the value of
\* the x-forwarded-for header, or "unknown" when there is none or it is no
\* visible ASCII
ClientKey(h) == IF h = NoHeader \/ ~VisibleAscii(h) THEN "unknown" ELSE h

\* a GET / whose only header, if any, is x-forwarded-for
PlainRequest(h) ==
    [ method |-> "GET", path |-> "/",
      headers |-> IF h = NoHeader THEN <<>> ELSE << <<XFF, h>> >>, body |-> "" ]

\* path_and_query().map(|x| x.as_str()).unwrap_or("/")
PathOrRoot(path) == IF path = NoPath THEN "/" ELSE path

\* format!("{}{}", server.url, path) and Request::builder().method(..)
\* .uri(..).body(req.into_body()): the builder is given no header
BuildRequest(req, url) ==
    [ method |-> req.method, uri |-> <<url, PathOrRoot(req.path)>>,
      headers |-> <<>>, body |-> req.body ]

\* ------------------------------------------------------------ selection
PushHealthy_all(cands, i, flag) == Append(cands, i)

PushHealthy_neg(cands, i, flag) == IF flag THEN cands ELSE Append(cands, i)

\* the filter pass of select_next_server: push the server when its flag reads true
PushHealthy(cands, i, flag) == IF flag THEN Append(cands, i) ELSE cands

ReduceIndex_none(cursor, n) == cursor

\* *next_index = *next_index % healthy_servers.len()
ReduceIndex(cursor, n) == cursor % n

AdvanceIndex_stuck(idx, n) == idx % n

AdvanceIndex_skip(idx, n) == (idx + 2) % n

\* *next_index = (*next_index + 1) % healthy_servers.len()
AdvanceIndex(idx, n) == (idx + 1) % n

ProbeFlag_any(o) == o.ok

\* check_health: the flag written after the probe's GET
ProbeFlag(o) == IF o.ok THEN o.status = OK ELSE FALSE

\* holders of servers.read(): select_next_server and health_check_loop
ReadHeld ==
    (\E r \in Tasks : task[r].pc = "filter") \/ mon.pc = "probe"

\* tokio's RwLock is fair: a queued writer keeps later readers out
CanRead == add_pending = NoAdd

NewServer_down(url) == [ url |-> url, healthy |-> FALSE ]

\* UpstreamServer::new: healthy by default
NewServer(url) == [ url |-> url, healthy |-> TRUE ]

\* ------------------------------------------------------------ initial states
InitState ==
    /\ servers = <<>>
    /\ add_pending = NoAdd
    /\ NEXT_SERVER_INDEX = 0
    /\ requests = [k \in Keys |-> NoEntry]
    /\ now = 0
    /\ task = [r \in Tasks |-> IdleTask]
    /\ mon = [pc |-> "sleep", i |-> 0, probed |-> 0, got |-> [ok |-> FALSE, status |-> 0],
             next |-> 0]
    /\ last = NoLast
    /\ rr_count = 0
    /\ hist = [k \in Keys |-> NoHist]

\* LoadBalancer::new(window_secs, max_requests)
Init ==
    /\ InitState
    /\ window = MaxWindow
    /\ max_requests = MaxLimit

\* LoadBalancer::new and then add_server for each target of the pool, as
\* main does before it starts the monitor and the listener
InitRR ==
    /\ \E n \in 0..MaxPool :
          servers = [i \in 1..n |-> NewServer("ok")]
    /\ add_pending = NoAdd
    /\ NEXT_SERVER_INDEX = 0
    /\ requests = [k \in Keys |-> NoEntry]
    /\ now = 0
    /\ task = [r \in Tasks |-> IdleTask]
    /\ mon = [pc |-> "sleep", i |-> 0, probed |-> 0, got |-> [ok |-> FALSE, status |-> 0],
             next |-> 0]
    /\ last = NoLast
    /\ rr_count = 0
    /\ hist = [k \in Keys |-> NoHist]
    /\ window = MaxWindow
    /\ max_requests = MaxRun

InitRL ==
    /\ InitState
    /\ window \in 0..MaxWindow
    /\ max_requests \in 0..MaxLimit

\* ------------------------------------------------------------ orchestrator
\* add_server: servers.write().await
add_server_call(url) ==
    /\ add_pending = NoAdd
    /\ Len(servers) < MaxServers
    /\ add_pending' = url
    /\ UNCHANGED << servers, NEXT_SERVER_INDEX, requests, window, max_requests,
                    now, task, mon, last, rr_count, hist >>

\* add_server: servers.push(UpstreamServer::new(url)), once no reader is left
add_server_push ==
    /\ add_pending # NoAdd
    /\ ~ReadHeld
    /\ servers' = Append(servers, NewServer(add_pending))
    /\ add_pending' = NoAdd
    /\ UNCHANGED << NEXT_SERVER_INDEX, requests, window, max_requests, now,
                    task, mon, last, rr_count, hist >>

\* ------------------------------------------------------------ health monitor
\* check_health up to client.get(uri).await: expect() panics on a string
\* that is no URI, which ends the monitor task; past the last server the
\* loop goes back to interval.tick()
MonAt(i, m) ==
    IF i > Len(servers) THEN [m EXCEPT !.pc = "sleep", !.i = 0]
    ELSE IF ParsesAsUri(servers[i].url) THEN [m EXCEPT !.pc = "probe", !.i = i]
    ELSE [m EXCEPT !.pc = "dead", !.i = 0]

\* health_check_loop: interval.tick().await, servers.read().await
health_tick ==
    /\ mon.pc = "sleep"
    /\ CanRead
    /\ mon' = MonAt(1, mon)
    /\ UNCHANGED << servers, add_pending, NEXT_SERVER_INDEX, requests, window,
                    max_requests, now, task, last, rr_count, hist >>

NextDeadline_same(next) == next

\* tokio's interval: the first tick completes at once, each later tick one
\* period after the deadline of the one before
NextDeadline(next) == next + PROBE_PERIOD

\* health_check_loop with the clock: interval.tick().await completes once
\* the deadline is reached, then servers.read().await. (health_tick is the
\* same step where the clock is not followed.)
health_tick_at ==
    /\ mon.pc = "sleep"
    /\ now >= mon.next
    /\ CanRead
    /\ mon' = MonAt(1, [mon EXCEPT !.next = NextDeadline(@)])
    /\ UNCHANGED << servers, add_pending, NEXT_SERVER_INDEX, requests, window,
                    max_requests, now, task, last, rr_count, hist >>

\* check_health: the GET returns, the flag is written
check_health_done(o) ==
    /\ mon.pc = "probe"
    /\ servers' = [servers EXCEPT ![mon.i].healthy = ProbeFlag(o)]
    /\ mon' = MonAt(mon.i + 1, [mon EXCEPT !.probed = mon.i, !.got = o])
    /\ task' = [r \in Tasks |->
                  IF task[r].pc = "filter"
                  THEN [task[r] EXCEPT
                          !.all_down = @ /\ ~servers'[mon.i].healthy,
                          !.down_instant =
                              @ \/ \A i \in DOMAIN servers : ~servers'[i].healthy]
                  ELSE task[r]]
    /\ UNCHANGED << add_pending, NEXT_SERVER_INDEX, requests, window,
                    max_requests, now, last, rr_count, hist >>

\* ------------------------------------------------------------ request pipeline
\* proxy_request: a request arrives, the client key is read from its header
Arrive(r, q) ==
    /\ task[r].pc = "idle"
    /\ task' = [task EXCEPT ![r].pc = "check", ![r].req = q,
                    ![r].ip = ClientKey(HeaderGet(q.headers, XFF))]
    /\ UNCHANGED << servers, add_pending, NEXT_SERVER_INDEX, requests, window,
                    max_requests, now, mon, last, rr_count, hist >>

\* a plain request arrives whose x-forwarded-for header is h
Receive(r, h) == Arrive(r, PlainRequest(h))

\* history of the calls of one key in its first window
HistAfter(h, t) ==
    IF h.start = -1 THEN [h EXCEPT !.start = t, !.calls = 1]
    ELSE IF h.start = -2 THEN h
    ELSE IF t - h.start > window
         THEN [h EXCEPT !.start = -2,
                        !.calls = IF h.calls > max_requests THEN h.calls ELSE 0]
    ELSE [h EXCEPT !.calls = Min(h.calls + 1, max_requests + 1)]

\* history of the calls of one key admitted at each instant of the last
\* window seconds
AdmitsAfter(h, ok, t) ==
    [h EXCEPT !.admits = [u \in DOMAIN @ |->
        IF u < t - window THEN 0
        ELSE IF u = t /\ ok THEN @[u] + 1
        ELSE @[u]]]

\* proxy_request: rate_limiter.lock().await; rate_limiter.check(ip); the 429
RateLimitCheck(r) ==
    /\ task[r].pc = "check"
    /\ LET res == check(requests, task[r].ip, now)
       IN  /\ requests' = res.requests
           /\ task' = [task EXCEPT ![r] =
                  IF res.ok
                  THEN [@ EXCEPT !.pc = "select", !.ip = "", !.allowed = TRUE]
                  ELSE [@ EXCEPT !.pc = "done", !.allowed = FALSE,
                           !.outcome = "too_many_requests",
                           !.response = [status |-> TOO_MANY_REQUESTS,
                                         body |-> "Too Many Requests\n"]]]
    /\ hist' = [hist EXCEPT ![task[r].ip] =
                   AdmitsAfter(HistAfter(@, now),
                               check(requests, task[r].ip, now).ok, now)]
    /\ UNCHANGED << servers, add_pending, NEXT_SERVER_INDEX, window,
                    max_requests, now, mon, last, rr_count >>

\* select_next_server: servers.read().await
SelectLock(r) ==
    /\ task[r].pc = "select"
    /\ CanRead
    /\ task' = [task EXCEPT ![r].pc = "filter", ![r].pos = 1,
                            ![r].healthy_servers = <<>>,
                            ![r].n_select = @ + 1,
                            ![r].all_down =
                                \A i \in DOMAIN servers : ~servers[i].healthy,
                            ![r].down_instant =
                                \A i \in DOMAIN servers : ~servers[i].healthy]
    /\ UNCHANGED << servers, add_pending, NEXT_SERVER_INDEX, requests, window,
                    max_requests, now, mon, last, rr_count, hist >>

\* select_next_server: one turn of the loop, *server.is_healthy.read().await
SelectFilter(r) ==
    /\ task[r].pc = "filter"
    /\ task[r].pos <= Len(servers)
    /\ task' = [task EXCEPT
                  ![r].healthy_servers =
                      PushHealthy(@, task[r].pos, servers[task[r].pos].healthy),
                  ![r].pos = @ + 1]
    /\ UNCHANGED << servers, add_pending, NEXT_SERVER_INDEX, requests, window,
                    max_requests, now, mon, last, rr_count, hist >>

\* selections since the start that all ran over one healthy set
RunAfter(cands) ==
    IF rr_count = -1 THEN -1
    ELSE IF rr_count = 0 THEN 1
    ELSE IF cands = last.cands /\ rr_count < MaxRun THEN rr_count + 1
    ELSE -1

\* the targets of the latest selections that ran over one healthy set, in
\* the order the cursor lock was taken, at most one per candidate
RecentAfter(cands, server) ==
    IF cands # last.cands THEN << server >>
    ELSE IF Len(last.recent) < Len(cands) THEN Append(last.recent, server)
    ELSE Append(Tail(last.recent), server)

\* select_next_server: the empty case, or NEXT_SERVER_INDEX.lock().await and
\* the pick; proxy_request: the 503
SelectPick(r) ==
    /\ task[r].pc = "filter"
    /\ task[r].pos > Len(servers)
    /\ LET cands == task[r].healthy_servers
           n == Len(cands)
       IN  IF n = 0
           THEN /\ task' = [task EXCEPT ![r].pc = "done", ![r].pos = 0,
                               ![r].outcome = "service_unavailable",
                               ![r].response = [status |-> SERVICE_UNAVAILABLE,
                                                body |-> "Service Unavailable"]]
                /\ rr_count' = IF Len(servers) = 0 THEN rr_count ELSE -1
                /\ UNCHANGED << NEXT_SERVER_INDEX, last >>
           ELSE LET idx == ReduceIndex(NEXT_SERVER_INDEX, n)
                    \* healthy_servers[*next_index]: indexing is bounds-checked
                    server == IF idx < n THEN cands[idx + 1] ELSE 0
                IN  /\ NEXT_SERVER_INDEX' = AdvanceIndex(idx, n)
                    /\ last' = [cands |-> cands, idx |-> idx,
                                pre |-> NEXT_SERVER_INDEX, target |-> server,
                                recent |-> RecentAfter(cands, server)]
                    /\ rr_count' = RunAfter(cands)
                    /\ task' = [task EXCEPT ![r] =
                          IF server # 0
                          THEN [@ EXCEPT !.pc = "forward", !.pos = 0,
                                   !.healthy_servers = <<>>,
                                   !.down_instant = FALSE,
                                   !.selected = server]
                          ELSE [@ EXCEPT !.pc = "done", !.pos = 0,
                                   !.healthy_servers = <<>>,
                                   !.down_instant = FALSE,
                                   !.outcome = "panic"]]
    /\ UNCHANGED << servers, add_pending, requests, window, max_requests, now,
                    mon, hist >>

\* proxy_request: the outbound request is built (expect() panics when
\* url + path is no URI) and handed to client.request()
Forward(r) ==
    /\ task[r].pc = "forward"
    /\ task' = [task EXCEPT ![r] =
          IF ParsesAsUri(servers[task[r].selected].url)
          THEN [@ EXCEPT !.pc = "await", !.n_forward = @ + 1,
                   !.sent_to = task[r].selected,
                   !.outbound = BuildRequest(task[r].req,
                                             servers[task[r].selected].url)]
          ELSE [@ EXCEPT !.pc = "done", !.outcome = "panic"]]
    /\ UNCHANGED << servers, add_pending, NEXT_SERVER_INDEX, requests, window,
                    max_requests, now, mon, last, rr_count, hist >>

\* proxy_request: client.request(new_req).await? returns
Relay(r, reply) ==
    /\ task[r].pc = "await"
    /\ task' = [task EXCEPT ![r] =
          IF reply.ok
          THEN [@ EXCEPT !.pc = "done", !.outcome = "relayed",
                   !.response = [status |-> reply.status, body |-> reply.body]]
          ELSE [@ EXCEPT !.pc = "done", !.outcome = "error"]]
    /\ UNCHANGED << servers, add_pending, NEXT_SERVER_INDEX, requests, window,
                    max_requests, now, mon, last, rr_count, hist >>

\* the request task ends
Finish(r) ==
    /\ task[r].pc = "done"
    /\ task' = [task EXCEPT ![r] = IdleTask]
    /\ UNCHANGED << servers, add_pending, NEXT_SERVER_INDEX, requests, window,
                    max_requests, now, mon, last, rr_count, hist >>

\* time passes
Tick ==
    /\ now < MaxTime
    /\ now' = now + 1
    /\ UNCHANGED << servers, add_pending, NEXT_SERVER_INDEX, requests, window,
                    max_requests, task, mon, last, rr_count, hist >>

\* half a probe period passes
HalfPeriod ==
    /\ now + PROBE_PERIOD \div 2 <= MaxTime * PROBE_PERIOD
    /\ now' = now + PROBE_PERIOD \div 2
    /\ UNCHANGED << servers, add_pending, NEXT_SERVER_INDEX, requests, window,
                    max_requests, task, mon, last, rr_count, hist >>

\* ------------------------------------------------------------ specifications
\* The whole pipeline: two request tasks, the monitor, add_server with
\* usable and unusable endpoints. All requests come without the header and
\* within the first rate-limit window (the clock is only read by check, and
\* SpecRL covers its passing).
Next ==
    \/ \E url \in Urls : add_server_call(url)
    \/ add_server_push
    \/ health_tick
    \/ \E o \in ProbeOutcomes : check_health_done(o)
    \/ \E r \in Tasks : Receive(r, NoHeader)
    \/ \E r \in Tasks : RateLimitCheck(r)
    \/ \E r \in Tasks : SelectLock(r)
    \/ \E r \in Tasks : SelectFilter(r)
    \/ \E r \in Tasks : SelectPick(r)
    \/ \E r \in Tasks : Forward(r)
    \/ \E r \in Tasks, reply \in UpstreamReplies : Relay(r, reply)
    \/ \E r \in Tasks : Finish(r)

Spec == Init /\ [][Next]_vars

\* Requests served one after the other over a pool of usable endpoints
\* registered at startup, the monitor running beside them; the limit is
\* MaxRun, so that MaxRun requests in a row are admitted.
NextRR ==
    \/ health_tick
    \/ \E o \in ProbeOutcomes : check_health_done(o)
    \/ Receive("t1", NoHeader)
    \/ RateLimitCheck("t1")
    \/ SelectLock("t1")
    \/ SelectFilter("t1")
    \/ SelectPick("t1")
    \/ Forward("t1")
    \/ \E reply \in UpstreamReplies : Relay("t1", reply)
    \/ Finish("t1")

SpecRR == InitRR /\ [][NextRR]_vars

\* The limiter under every configuration window in 0..MaxWindow,
\* max_requests in 0..MaxLimit, two keys, two request tasks, the clock
\* passing; no backend is registered, so admitted requests end with 503.
NextRL ==
    \/ \E r \in Tasks, h \in {"A", "B"} : Receive(r, h)
    \/ \E r \in Tasks : RateLimitCheck(r)
    \/ \E r \in Tasks : SelectLock(r)
    \/ \E r \in Tasks : SelectPick(r)
    \/ \E r \in Tasks : Finish(r)
    \/ Tick

SpecRL == InitRL /\ [][NextRL]_vars

\* Forwarding: requests of every method, path, header map and body are served
\* one after the other over two healthy targets with different endpoints.
InitFwd ==
    /\ servers = << NewServer("http://b1"), NewServer("http://b2") >>
    /\ add_pending = NoAdd
    /\ NEXT_SERVER_INDEX = 0
    /\ requests = [k \in Keys |-> NoEntry]
    /\ now = 0
    /\ task = [r \in Tasks |-> IdleTask]
    /\ mon = [pc |-> "sleep", i |-> 0, probed |-> 0, got |-> [ok |-> FALSE, status |-> 0],
             next |-> 0]
    /\ last = NoLast
    /\ rr_count = 0
    /\ hist = [k \in Keys |-> NoHist]
    /\ window = MaxWindow
    /\ max_requests = MaxLimit

NextFwd ==
    \/ \E q \in Requests : Arrive("t1", q)
    \/ RateLimitCheck("t1")
    \/ SelectLock("t1")
    \/ SelectFilter("t1")
    \/ SelectPick("t1")
    \/ Forward("t1")
    \/ \E reply \in UpstreamReplies : Relay("t1", reply)
    \/ Finish("t1")

SpecFwd == InitFwd /\ [][NextFwd]_vars

\* Client keys: requests with every header map of HeaderMaps served one
\* after the other under every limiter configuration, all within the first
\* window of each key (SpecRL covers the passing of windows); no backend is
\* registered.
NextKey ==
    \/ \E hs \in HeaderMaps :
          Arrive("t1", [PlainRequest(NoHeader) EXCEPT !.headers = hs])
    \/ RateLimitCheck("t1")
    \/ SelectLock("t1")
    \/ SelectPick("t1")
    \/ Finish("t1")

SpecKey == InitRL /\ [][NextKey]_vars

\* Concurrent selection: two request tasks run the pipeline at once over a
\* pool registered at startup whose flags nobody writes (no monitor task).
NextCC ==
    \/ \E r \in Tasks : Receive(r, NoHeader)
    \/ \E r \in Tasks : RateLimitCheck(r)
    \/ \E r \in Tasks : SelectLock(r)
    \/ \E r \in Tasks : SelectFilter(r)
    \/ \E r \in Tasks : SelectPick(r)
    \/ \E r \in Tasks : Forward(r)
    \/ \E r \in Tasks, reply \in UpstreamReplies : Relay(r, reply)
    \/ \E r \in Tasks : Finish(r)

SpecCC == InitRR /\ [][NextCC]_vars

\* The monitor against the clock: the loop starts at time 0, targets are
\* added while it runs, time passes in half periods.
NextTime ==
    \/ \E url \in Urls : add_server_call(url)
    \/ add_server_push
    \/ health_tick_at
    \/ \E o \in ProbeOutcomes : check_health_done(o)
    \/ HalfPeriod

SpecTime == Init /\ [][NextTime]_vars

\* Scheduling: the runtime runs every task that can take a step, every
\* outbound HTTP call returns (the GET of a probe, the forwarded request),
\* and the registry lock serves its queue in order, so a reader queued
\* behind a writer gets the lock once that writer is done.
Fairness ==
    /\ WF_vars(add_server_push)
    /\ WF_vars(\E o \in ProbeOutcomes : check_health_done(o))
    /\ \A r \in Tasks :
          /\ WF_vars(RateLimitCheck(r))
          /\ SF_vars(SelectLock(r))
          /\ WF_vars(SelectFilter(r))
          /\ WF_vars(SelectPick(r))
          /\ WF_vars(Forward(r))
          /\ WF_vars(\E reply \in UpstreamReplies : Relay(r, reply))

SpecLive == Init /\ [][Next]_vars /\ Fairness

\* Denials beside selections: requests of two keys served one after the
\* other over MaxServers healthy targets under every limiter configuration,
\* the clock passing.
InitDeny ==
    /\ servers = [i \in 1..MaxServers |-> NewServer("ok")]
    /\ add_pending = NoAdd
    /\ NEXT_SERVER_INDEX = 0
    /\ requests = [k \in Keys |-> NoEntry]
    /\ now = 0
    /\ task = [r \in Tasks |-> IdleTask]
    /\ mon = [pc |-> "sleep", i |-> 0, probed |-> 0, got |-> [ok |-> FALSE, status |-> 0],
             next |-> 0]
    /\ last = NoLast
    /\ rr_count = 0
    /\ hist = [k \in Keys |-> NoHist]
    /\ window \in 0..MaxWindow
    /\ max_requests \in 0..MaxLimit

NextDeny ==
    \/ \E h \in {"A", "B"} : Receive("t1", h)
    \/ RateLimitCheck("t1")
    \/ SelectLock("t1")
    \/ SelectFilter("t1")
    \/ SelectPick("t1")
    \/ Forward("t1")
    \/ \E reply \in UpstreamReplies : Relay("t1", reply)
    \/ Finish("t1")
    \/ Tick

SpecDeny == InitDeny /\ [][NextDeny]_vars

\* ------------------------------------------------------------ properties
Registry(n) == [i \in 1..n |-> i]

StrictlyIncreasing(s) == \A i, j \in DOMAIN s : i < j => s[i] < s[j]

FilterStep(r) == task[r].pc = "filter" /\ task'[r].pc = "filter" /\ task'[r].pos = task[r].pos + 1

PickStep(r) == task[r].pc = "filter" /\ task'[r].pc # "filter"

CheckStep(r) == task[r].pc = "check" /\ task'[r].pc # "check"

\* C1: from cursor 0, while every selection so far saw all n registered
\* targets healthy, the k-th selection (k = 1, 2, ...) returns target
\* ((k - 1) mod n) + 1 of the registry.
C1_RoundRobin ==
    (rr_count >= 1 /\ last.cands = Registry(Len(servers)))
        => last.target = ((rr_count - 1) % Len(servers)) + 1

\* six selections over three healthy targets: the sixth returns the third
C1_Witness ==
    /\ rr_count = 6
    /\ last.cands = <<1, 2, 3>>
    /\ last.target = 3
    /\ NEXT_SERVER_INDEX = 0

\* C2: every turn of the filter loop puts the target it reads into the
\* candidate list exactly when its flag reads true, keeping registry order;
\* the pick is made once every registered target has been read, returns
\* one of the candidates, and two selections in a row over the same
\* candidates return neighbours of the rotation.
C2_Step ==
    \A r \in Tasks :
        /\ FilterStep(r) =>
             LET i == task[r].pos
                 before == task[r].healthy_servers
                 after == task'[r].healthy_servers
             IN  /\ (i \in Range(after)) <=> servers[i].healthy
                 /\ Range(after) \ {i} = Range(before)
                 /\ StrictlyIncreasing(after)
        /\ PickStep(r) =>
             LET cands == task[r].healthy_servers
             IN  /\ task[r].pos = Len(servers) + 1
                 /\ (cands = <<>>) <=> (task'[r].selected = 0)
                 /\ cands # <<>> => task'[r].selected \in Range(cands)
                 /\ (cands # <<>> /\ cands = last.cands) =>
                        last'.idx = (last.idx + 1) % Len(cands)

C2_Candidates == [][C2_Step]_vars

\* four selections over {b0, b2} while b1 was unhealthy, then b1 is back
\* and is a candidate of the select call that follows
C2_Witness ==
    /\ rr_count = 4
    /\ last.cands = <<1, 3>>
    /\ task["t1"].pc = "filter"
    /\ task["t1"].pos > Len(servers)
    /\ task["t1"].healthy_servers = <<1, 2, 3>>

\* C5: a select call during which no registered target was healthy returns
\* none, and the request gets 503 "Service Unavailable" and is sent nowhere.
C5_NoHealthyBackend ==
    \A r \in Tasks :
        task[r].all_down =>
            /\ task[r].healthy_servers = <<>>
            /\ task[r].selected = 0
            /\ task[r].n_forward = 0
            /\ task[r].pc \in {"filter", "done"}
            /\ task[r].pc = "done" =>
                 /\ task[r].outcome = "service_unavailable"
                 /\ task[r].response =
                      [status |-> 503, body |-> "Service Unavailable"]

\* two targets registered, both unhealthy during the call, answer produced
C5_Witness ==
    \E r \in Tasks :
        /\ task[r].pc = "done"
        /\ task[r].all_down
        /\ Len(servers) = 2

\* C6: after a probe of a target completes, its flag is true exactly when
\* the GET returned a response with status 200.
C6_ProbeCorrect ==
    mon.probed # 0 =>
        (servers[mon.probed].healthy <=> (mon.got.ok /\ mon.got.status = 200))

\* a target that was added healthy answered 500 and is now unhealthy
C6_Witness ==
    /\ mon.probed # 0
    /\ mon.got.ok
    /\ mon.got.status = 500
    /\ ~servers[mon.probed].healthy

\* C9: a request ends in one of the four terminal states of the pipeline;
\* denied: no select, no forward; none selected: no forward; a target
\* selected: exactly one request sent, to that target.
C9_StateMachine ==
    \A r \in Tasks :
        /\ task[r].n_select <= 1
        /\ task[r].n_forward <= 1
        /\ task[r].pc = "done" =>
             /\ task[r].outcome \in
                  {"too_many_requests", "service_unavailable", "relayed", "error"}
             /\ task[r].outcome = "too_many_requests" =>
                  task[r].n_select = 0 /\ task[r].n_forward = 0
             /\ task[r].outcome = "service_unavailable" =>
                  task[r].n_select = 1 /\ task[r].selected = 0 /\ task[r].n_forward = 0
             /\ task[r].selected # 0 =>
                  task[r].n_forward = 1 /\ task[r].sent_to = task[r].selected

\* C10: after a selection over n healthy targets the cursor is below
\* max(1, n), and the index used was the old cursor mod n, inside the set.
C10_Cursor ==
    /\ NEXT_SERVER_INDEX \in Nat
    /\ NEXT_SERVER_INDEX < Max(1, Len(last.cands))
    /\ last.cands # <<>> =>
         /\ last.idx = last.pre % Len(last.cands)
         /\ last.idx < Len(last.cands)
         /\ last.target = last.cands[last.idx + 1]

\* the cursor left by an earlier selection was beyond the healthy set
C10_Witness ==
    /\ last.cands # <<>>
    /\ last.pre >= Len(last.cands)

\* C3: on a key with no history the j-th call made within the window is
\* admitted exactly when j <= max_requests, the first call made more than
\* window after the window start is admitted, and a denied request is
\* answered 429.
C3_Step ==
    \A r \in Tasks :
        CheckStep(r) =>
            LET h == hist[task[r].ip]
                admitted == task'[r].allowed
            IN  /\ h.start = -1 => (admitted <=> 1 <= max_requests)
                /\ (h.start >= 0 /\ now - h.start <= window) =>
                       (admitted <=> h.calls + 1 <= max_requests)
                /\ (h.start >= 0 /\ now - h.start > window) => admitted
                /\ admitted <=> task'[r].pc = "select"
                /\ ~admitted <=>
                       /\ task'[r].pc = "done"
                       /\ task'[r].response.status = 429

C3_FixedWindow == [][C3_Step]_vars

\* window 1, limit 2: key A was admitted twice and denied once within its
\* first window, and admitted again after the window had passed
C3_Witness ==
    /\ window = 1
    /\ max_requests = 2
    /\ hist["A"].start = -2
    /\ hist["A"].calls = 3
    /\ requests["A"] = <<1, 2>>

\* C4: a check of one key leaves the entry of every other key as it was,
\* and its decision and the entry it leaves are those of a limiter that
\* holds no other key.
C4_Step ==
    \A r \in Tasks :
        CheckStep(r) =>
            LET k == task[r].ip
                alone == check([x \in Keys |-> IF x = k THEN requests[k] ELSE NoEntry],
                               k, now)
            IN  /\ \A b \in Keys \ {k} : requests'[b] = requests[b]
                /\ task'[r].allowed = alone.ok
                /\ requests'[k] = alone.requests[k]

C4_KeyIsolation == [][C4_Step]_vars

\* A is denied while B holds an entry of its own that used its whole quota
C4_Witness ==
    /\ max_requests = 2
    /\ \E r \in Tasks :
          /\ task[r].pc = "done"
          /\ task[r].ip = "A"
          /\ task[r].outcome = "too_many_requests"
    /\ requests["B"] # NoEntry
    /\ requests["B"][1] = 2
    /\ requests["A"][2] # requests["B"][2]

\* the four-case fixed-window reference
RefCheck(reqs, ip, t) ==
    IF reqs[ip] = NoEntry
    THEN [ requests |-> [reqs EXCEPT ![ip] = <<1, t>>], ok |-> TRUE ]
    ELSE IF t - reqs[ip][2] > window
    THEN [ requests |-> [reqs EXCEPT ![ip] = <<1, t>>], ok |-> TRUE ]
    ELSE IF reqs[ip][1] < max_requests
    THEN [ requests |-> [reqs EXCEPT ![ip] = <<reqs[ip][1] + 1, reqs[ip][2]>>],
           ok |-> TRUE ]
    ELSE [ requests |-> reqs, ok |-> FALSE ]

AgreesWithRef(r) ==
    LET ref == RefCheck(requests, task[r].ip, now)
    IN  /\ requests' = ref.requests
        /\ task'[r].allowed = ref.ok

\* C7 as stated: for every configuration, max_requests = 0 included, check
\* decides and leaves the map as the four-case reference does.
C7_Original_Step == \A r \in Tasks : CheckStep(r) => AgreesWithRef(r)

C7_Original == [][C7_Original_Step]_vars

\* C7 amended: check agrees with the reference in every case but one: with
\* max_requests = 0 a key with no entry is denied and gets the entry
\* (count 0, window_start now).
C7_Amended_Step ==
    \A r \in Tasks :
        CheckStep(r) =>
            IF max_requests = 0 /\ requests[task[r].ip] = NoEntry
            THEN /\ ~task'[r].allowed
                 /\ requests' = [requests EXCEPT ![task[r].ip] = <<0, now>>]
            ELSE AgreesWithRef(r)

C7_Amended == [][C7_Amended_Step]_vars

\* window 0, limit 1: B was created, denied in its window and reset later
C7_Witness ==
    /\ window = 0
    /\ max_requests = 1
    /\ hist["B"].start = -2
    /\ hist["B"].calls = 2
    /\ requests["B"][1] = 1

\* C8: an entry whose window has not passed holds a count of at most
\* max_requests.
C8_EntryInvariant ==
    \A k \in Keys :
        (requests[k] # NoEntry /\ now - requests[k][2] <= window)
            => requests[k][1] <= max_requests

\* C11: whatever was registered and whatever the probes return, the task
\* running health_check_loop never ends.
C11_MonitorNeverEnds == mon.pc \in {"sleep", "probe"}

\* C18: the registry changes only by a probe writing the flag of the target
\* it probed, or by add_server appending one healthy target behind the
\* others; no other step, of the request pipeline in particular, changes a
\* flag, an endpoint or the order.
C18_Step ==
    /\ Len(servers') \in {Len(servers), Len(servers) + 1}
    /\ \A i \in DOMAIN servers :
          /\ servers'[i].url = servers[i].url
          /\ servers'[i].healthy # servers[i].healthy =>
                /\ mon.pc = "probe"
                /\ mon.i = i
                /\ mon'.probed = i
                /\ Len(servers') = Len(servers)
                /\ \A r \in Tasks : task'[r].pc = task[r].pc
    /\ Len(servers') = Len(servers) + 1 =>
          /\ add_pending # NoAdd
          /\ servers'[Len(servers') ] = [url |-> add_pending, healthy |-> TRUE]
          /\ \A i \in DOMAIN servers : servers'[i] = servers[i]

C18_FlagsOnlyByMonitor == [][C18_Step]_vars

\* a forward to the second target failed with a transport error and both
\* targets still carry the flag they were added with
C18_Witness ==
    /\ Len(servers) = 2
    /\ \A i \in DOMAIN servers : servers[i].healthy
    /\ mon.probed = 0
    /\ \E r \in Tasks :
          /\ task[r].pc = "done"
          /\ task[r].outcome = "error"
          /\ task[r].sent_to = 2

\* C12: the request handed to the HTTP client has the method, the body and
\* the headers of the incoming request and the URI endpoint + path-and-query
\* ("/" when the request has none); a response received from the target is
\* the response of the request, unchanged.
C12_Forwarding ==
    \A r \in Tasks :
        task[r].n_forward = 1 =>
            /\ task[r].outbound.method = task[r].req.method
            /\ task[r].outbound.body = task[r].req.body
            /\ task[r].outbound.headers = task[r].req.headers
            /\ task[r].outbound.uri =
                  << servers[task[r].sent_to].url,
                     IF task[r].req.path = NoPath THEN "/" ELSE task[r].req.path >>
            /\ task[r].outcome = "relayed" =>
                  \E reply \in UpstreamReplies :
                      /\ reply.ok
                      /\ task[r].response = [status |-> reply.status, body |-> reply.body]

\* the first x-forwarded-for value of a header map, NoHeader when it has none
FirstXff(headers) ==
    LET vals == SelectSeq(headers, LAMBDA p : p[1] = XFF)
    IN  IF vals = <<>> THEN NoHeader ELSE Head(vals)[2]

ArriveStep(r) == task[r].pc = "idle" /\ task'[r].pc = "check"

\* the counter of "unknown" leaves no room: max_requests calls were admitted
\* in its window, which has not passed
UnknownIsFull ==
    LET e == requests["unknown"]
    IN  IF e = NoEntry THEN max_requests = 0
        ELSE e[1] >= max_requests /\ now - e[2] <= window

\* C13 as stated: the client key is the first x-forwarded-for value when the
\* header is present and "unknown" exactly when it is absent; a header-less
\* request that finds the shared counter full is answered 429.
C13_Original_Step ==
    \A r \in Tasks :
        /\ ArriveStep(r) =>
              LET h == FirstXff(task'[r].req.headers)
              IN  /\ h # NoHeader => task'[r].ip = h
                  /\ task'[r].ip = "unknown" <=> h = NoHeader
        /\ CheckStep(r) /\ FirstXff(task[r].req.headers) = NoHeader /\ UnknownIsFull =>
              task'[r].response.status = TOO_MANY_REQUESTS

C13_Original == [][C13_Original_Step]_vars

\* C13 amended: the client key is the first x-forwarded-for value when that
\* value is visible ASCII, and "unknown" when the header is absent or its
\* first value is not visible ASCII; every request whose key is "unknown"
\* (header-less or not) that finds the shared counter full is answered 429.
C13_Amended_Step ==
    \A r \in Tasks :
        /\ ArriveStep(r) =>
              LET h == FirstXff(task'[r].req.headers)
              IN  task'[r].ip = IF h = NoHeader \/ h = NotAscii THEN "unknown" ELSE h
        /\ CheckStep(r) /\ task[r].ip = "unknown" /\ UnknownIsFull =>
              /\ task[r].ip = "unknown"
              /\ task'[r].response.status = TOO_MANY_REQUESTS
              /\ task'[r].outcome = "too_many_requests"

C13_Amended == [][C13_Amended_Step]_vars

\* a request whose first x-forwarded-for value is not visible ASCII was
\* answered 429 by the counter header-less requests had filled, the key of
\* its second value never used
C13_Witness ==
    /\ max_requests = MaxLimit
    /\ requests["unknown"] # NoEntry
    /\ requests["unknown"][1] = max_requests
    /\ requests["A"] = NoEntry
    /\ task["t1"].pc = "done"
    /\ task["t1"].outcome = "too_many_requests"
    /\ task["t1"].req.headers = << <<XFF, NotAscii>>, <<XFF, "A">> >>

\* position of a target among the candidates
PosIn(cands, x) == CHOOSE i \in DOMAIN cands : cands[i] = x

\* C14: with concurrent selections over an unchanging healthy set of size n,
\* the targets taken in cursor-lock order follow the rotation (each is the
\* successor, modulo n, of the one before: no slot skipped, none handed out
\* twice), the cursor always holds the slot after the one last handed out,
\* and any n consecutive selections return n distinct targets.
C14_Serialized ==
    last.cands # <<>> =>
        LET n == Len(last.cands)
            rec == last.recent
        IN  /\ rec # <<>>
            /\ Len(rec) <= n
            /\ rec[Len(rec)] = last.target
            /\ \A j \in DOMAIN rec : rec[j] \in Range(last.cands)
            /\ \A j \in 1..(Len(rec) - 1) :
                  PosIn(last.cands, rec[j + 1]) = (PosIn(last.cands, rec[j]) % n) + 1
            /\ Cardinality(Range(rec)) = Len(rec)
            /\ rr_count >= n => Range(rec) = Range(last.cands)
            /\ NEXT_SERVER_INDEX = PosIn(last.cands, last.target) % n

\* two selections in flight at once got the next two slots: after targets
\* 2, 3, 1 of three, both tasks hold a target not yet sent to, 3 and 1
C14_Witness ==
    /\ Len(servers) = 3
    /\ last.recent = <<2, 3, 1>>
    /\ task["t1"].pc = "forward"
    /\ task["t2"].pc = "forward"
    /\ task["t1"].selected = 3
    /\ task["t2"].selected = 1

\* C15: a request is answered with the no-backend 503 only if, at some
\* instant between the start and the end of its select call, the flag of
\* every registered target was false.
C15_EmptyAtSomeInstant ==
    \A r \in Tasks :
        task[r].outcome = "service_unavailable" => task[r].down_instant

\* C16 as stated: no probe pass starts before the first 20 seconds have
\* passed; until then every target keeps the flag it was added with.
C16_Original ==
    now < PROBE_PERIOD =>
        /\ mon.next = 0
        /\ mon.pc = "sleep"
        /\ \A i \in DOMAIN servers : servers[i].healthy

\* C16 amended: the first pass may start as soon as the loop runs, pass k
\* (k = 1, 2, ...) starts no earlier than (k-1) * 20 seconds after the loop
\* started, and until the first pass every target keeps the flag it was
\* added with.
C16_Amended ==
    /\ mon.next % PROBE_PERIOD = 0
    /\ mon.next > 0 => now >= mon.next - PROBE_PERIOD
    /\ mon.next = 0 =>
          /\ mon.pc = "sleep"
          /\ \A i \in DOMAIN servers : servers[i].healthy

\* at time 0 the first pass has already marked a target unhealthy, and the
\* second pass is not due before time 20
C16_Witness ==
    /\ now = 0
    /\ mon.next = PROBE_PERIOD
    /\ mon.pc = "sleep"
    /\ \E i \in DOMAIN servers : ~servers[i].healthy

RECURSIVE SumFrom(_, _, _)
\* f[a] + ... + f[b]
SumFrom(f, a, b) == IF a > b THEN 0 ELSE f[a] + SumFrom(f, a + 1, b)

\* C17: for every key and every time interval of length window, at most
\* 2 * max_requests calls of check(key) inside the interval were admitted.
C17_BurstBound ==
    \A k \in Keys : \A t \in 0..MaxTime :
        SumFrom(hist[k].admits, t, Min(t + window, MaxTime)) <= 2 * max_requests

TerminalResponses == {"too_many_requests", "service_unavailable", "relayed", "error"}

\* every task waiting for a lock gets it: a request waiting for the rate
\* limiter, for the registry or inside the filter loop moves on and ends, a
\* waiting add_server pushes its target
LockProgress ==
    /\ (add_pending # NoAdd) ~> (add_pending = NoAdd)
    /\ \A r \in Tasks :
          /\ (task[r].pc = "check") ~> (task[r].pc # "check")
          /\ (task[r].pc = "select") ~> (task[r].pc = "filter")
          /\ (task[r].pc = "filter") ~> (task[r].pc # "filter")
          /\ (task[r].pc = "check") ~> (task[r].pc = "done")

\* C19: no task waits for a lock for ever (every waiting request moves on,
\* every add_server call completes), and every request reaches a terminal
\* response.
C19_Progress ==
    /\ LockProgress
    /\ \A r \in Tasks :
          (task[r].pc = "check") ~>
              (task[r].pc = "done" /\ task[r].outcome \in TerminalResponses)

DeniedStep(r) == CheckStep(r) /\ task'[r].outcome = "too_many_requests"

\* C20 as stated: a denied check changes nothing in the limiter, and the
\* request answered 429 neither runs a selection nor moves the cursor.
C20_Original_Step ==
    \A r \in Tasks :
        DeniedStep(r) =>
            /\ requests' = requests
            /\ NEXT_SERVER_INDEX' = NEXT_SERVER_INDEX
            /\ task'[r].n_select = 0
            /\ task'[r].pc = "done"

C20_Original == [][C20_Original_Step]_vars

\* C20 amended: a denied check leaves the entry of the key as it was when
\* the key has one; a key without entry is denied only under max_requests =
\* 0 and then gets the entry (0, now); no other entry changes, and the
\* request answered 429 neither runs a selection nor moves the cursor.
C20_Amended_Step ==
    \A r \in Tasks :
        DeniedStep(r) =>
            LET k == task[r].ip
            IN  /\ requests[k] # NoEntry => requests' = requests
                /\ requests[k] = NoEntry =>
                      /\ max_requests = 0
                      /\ requests' = [requests EXCEPT ![k] = <<0, now>>]
                /\ NEXT_SERVER_INDEX' = NEXT_SERVER_INDEX
                /\ task'[r].n_select = 0
                /\ task'[r].pc = "done"

C20_Amended == [][C20_Amended_Step]_vars

\* a request of key A was answered 429 one second into the window its two
\* admitted requests had filled, the cursor standing at 1 from an earlier
\* selection
C20_Witness ==
    /\ max_requests = MaxLimit
    /\ window = MaxWindow
    /\ now = 1
    /\ requests["A"] = <<max_requests, 0>>
    /\ NEXT_SERVER_INDEX = 1
    /\ task["t1"].pc = "done"
    /\ task["t1"].outcome = "too_many_requests"
    /\ task["t1"].ip = "A"
    /\ task["t1"].n_select = 0

====
